---- MODULE Spec2Model ----
(***************************************************************************)
(* Bitbar minting: the Monitor (src/server/server.js), which ingests the   *)
(* explorer's transaction listing into the SQLite table `transactions` and *)
(* serves /api/pending-mints and /api/confirm-mint, and the Minter Worker  *)
(* (src/minter/mint.js), which polls the pending list, runs the external   *)
(* inscription command and confirms the result.                            *)
(*                                                                         *)
(* Every `await` of the JavaScript source is a step boundary: the code     *)
(* between two awaits runs as one action, and other handlers may run in    *)
(* between.                                                                *)
(***************************************************************************)
EXTENDS Integers, Sequences, FiniteSets, TLC

VARIABLES
    db,         \* rows of the table `transactions` (server.js:32-45)
    now,        \* the wall clock read by Date.now(), in timer periods
    poll,       \* the executions of monitorAddress started by setInterval
    ticks,      \* number of setInterval firings so far
    seenAgain,  \* txid and status of the rows processTransaction found in its way
    chain,      \* the transactions the explorer knows for the watched address
    replay,     \* the listing the explorer keeps reporting (replay runs only)
    swept,      \* txids of the rows the retention sweep of server4.js deleted
    req,        \* the /api/confirm-mint requests; slot 0 is the Worker's
    w,                  \* where the Worker's scheduler loop stands
    wticks,             \* number of checkPendingMints calls so far
    mintingAttempts,    \* mint.js:40
    activeOperations,   \* mint.js:41
    mints,              \* content of mints.json
    procs,              \* running inscription subprocesses, per txid
    invocations,        \* inscription subprocesses started so far, per txid
    confirmed,          \* txids whose confirmMint returned true
    listed              \* txids some fetched pending list held

mvars == <<db, now, poll, ticks, seenAgain, chain, replay, swept, req>>

wvars == <<w, wticks, mintingAttempts, activeOperations, mints, procs, invocations, confirmed,
          listed>>

vars == <<db, now, poll, ticks, seenAgain, chain, replay, swept, req,
          w, wticks, mintingAttempts, activeOperations, mints, procs, invocations, confirmed,
          listed>>

-----------------------------------------------------------------------------
(* Bounds of the model *)

MaxTicks == 2       \* setInterval firings explored

MaxRequests == 2    \* confirm-mint requests explored

MaxOps == 3         \* timer firings plus confirm-mint requests in one run

MaxWorkerTicks == 3 \* checkPendingMints calls explored

MaxSysOps == 1      \* timer firings plus other clients' requests next to the Worker

MaxRetryTicks == 4  \* checkPendingMints calls explored where retries are followed

MaxQuietSpells == 1 \* retention horizons that go by without anything new

-----------------------------------------------------------------------------
(* Values *)

\* JavaScript null / undefined and SQL NULL, for text values
Null == "null"

\* an absent number is the empty tuple, a present number n is <<n>>
None == <<>>

Some(x) == <<x>>

\* config.bitcoinAddress
bitcoinAddress == "bc1watched"

\* config.minimumSatsForBitbar
minimumSatsForBitbar == 1641

OtherAddress == "bc1other"

TxIds == {"t1", "t2", "t3", "t4", "t5"}

\* the inscription id the r-th confirm-mint request carries, when it carries one
InscriptionOf(r) == <<"i1", "i2", "i3", "i4">>[r]

-----------------------------------------------------------------------------
(* The explorer's transaction objects *)

Out(addr, value) == [scriptpubkey_address |-> addr, value |-> value]

\* an input with a prevout carrying an address
In(addr) == [prevout |-> Some([scriptpubkey_address |-> addr])]

\* an input without prevout (a coinbase input)
InNoPrevout == [prevout |-> None]

Tx(txid, vin, vout, height) ==
    [txid |-> txid, vin |-> vin, vout |-> vout, status |-> [block_height |-> height]]

\* the transactions the explorer may list for the watched address
UpstreamTxs ==
    { Tx("t1", <<In("S1")>>, <<Out(bitcoinAddress, 1000), Out(bitcoinAddress, 1000)>>, None),
      Tx("t2", <<InNoPrevout, In("S2")>>, <<Out(bitcoinAddress, 1641)>>, Some(800)),
      Tx("t3", <<In("S2")>>, <<Out(bitcoinAddress, 1640), Out(OtherAddress, 5000)>>, Some(801)),
      Tx("t4", <<In("S1")>>, <<Out(OtherAddress, 3000)>>, None),
      Tx("t5", <<In("S2")>>, <<Out(OtherAddress, 700), Out(bitcoinAddress, 1641)>>, Some(801)) }

\* what the explorer can know in one run: two transactions with distinct txids
Chains == { {x, y} : x, y \in UpstreamTxs } \ { {x} : x \in UpstreamTxs }

\* the listings the explorer can answer with: some of the transactions it knows,
\* each once, in any order
Listings(c) ==
    UNION { { s \in [1..n -> c] : \A i, j \in 1..n : i # j => s[i] # s[j] } :
            n \in 0..Cardinality(c) }

-----------------------------------------------------------------------------
(* The table `transactions` *)

\* SELECT * FROM transactions WHERE txid = ?
SelectTx(rows, txid) == { r \in rows : r.txid = txid }

\* a table declared without PRIMARY KEY(txid) accepts every row
NoPrimaryKey(rows, row) == FALSE

\* the row INSERT would add violates PRIMARY KEY(txid)
PrimaryKeyConflict(rows, row) == SelectTx(rows, row.txid) # {}

\* INSERT OR REPLACE INTO transactions ...: the new row takes the old one's place
InsertOrReplaceTx(rows, row) == { r \in rows : r.txid # row.txid } \cup {row}

\* INSERT INTO transactions ...: the table afterwards (unchanged on a conflict)
InsertTx(rows, row) ==
    IF PrimaryKeyConflict(rows, row) THEN rows ELSE rows \cup {row}

\* UPDATE transactions SET inscription_id = ?, inscription_timestamp = ?
\* WHERE txid = ?: an update that forgets the status
UpdateInscriptionOnly(rows, txid, inscription_id, t) ==
    { IF r.txid = txid
        THEN [r EXCEPT !.inscription_id = inscription_id,
                       !.inscription_timestamp = Some(t)]
        ELSE r : r \in rows }

\* UPDATE transactions SET minting_status = 'completed', inscription_timestamp = ?
\* WHERE txid = ?: an update that forgets the inscription id
UpdateStatusOnly(rows, txid, inscription_id, t) ==
    { IF r.txid = txid
        THEN [r EXCEPT !.minting_status = "completed",
                       !.inscription_timestamp = Some(t)]
        ELSE r : r \in rows }

\* UPDATE transactions SET minting_status = 'completed', inscription_id = ?,
\* inscription_timestamp = ? WHERE txid = ?
UpdateCompleted(rows, txid, inscription_id, t) ==
    { IF r.txid = txid
        THEN [r EXCEPT !.minting_status = "completed",
                       !.inscription_id = inscription_id,
                       !.inscription_timestamp = Some(t)]
        ELSE r : r \in rows }

\* SELECT txid, amount, timestamp, sender_address FROM transactions
\* WHERE minting_status = 'pending': the query of the draft server4.js
PendingMintsQueryAnySender(rows) ==
    { [txid |-> r.txid, amount |-> r.amount, timestamp |-> r.timestamp,
       sender_address |-> r.sender_address] :
      r \in { x \in rows : x.minting_status = "pending" } }

\* GET /api/pending-mints of server4.js: SELECT txid, amount, timestamp,
\* sender_address FROM transactions WHERE minting_status = 'pending'
PendingMintsQuery4(rows) ==
    { [txid |-> r.txid, amount |-> r.amount, timestamp |-> r.timestamp,
       sender_address |-> r.sender_address] :
      r \in { x \in rows : x.minting_status = "pending" } }

\* SELECT txid, amount, timestamp, sender_address FROM transactions
\* WHERE minting_status = 'pending' AND sender_address IS NOT NULL
PendingMintsQuery(rows) ==
    { [txid |-> r.txid, amount |-> r.amount, timestamp |-> r.timestamp,
       sender_address |-> r.sender_address] :
      r \in { x \in rows : x.minting_status = "pending" /\ x.sender_address # Null } }

\* GET /api/status, pendingMints:
\* SELECT COUNT(*) as count FROM transactions WHERE minting_status = 'pending'
StatusPendingMints(rows) ==
    Cardinality({ r \in rows : r.minting_status = "pending" })

-----------------------------------------------------------------------------
(* processTransaction: the values computed between the SELECT and the INSERT *)

\* what is remembered of the rows that made processTransaction skip a txid
Found(rows, txid) ==
    { [txid |-> r.txid, minting_status |-> r.minting_status] : r \in SelectTx(rows, txid) }

\* senderAddress: the prevout address of vin[0], when vin[0] has a prevout
SenderAddress(tx) ==
    IF Len(tx.vin) > 0 /\ Len(tx.vin[1].prevout) > 0
    THEN tx.vin[1].prevout[1].scriptpubkey_address
    ELSE Null

\* an amount that looks at the first output only
FirstOutputOnly(vout) ==
    IF vout # <<>> /\ Head(vout).scriptpubkey_address = bitcoinAddress
    THEN Head(vout).value ELSE 0

\* receivedAmount: sum of the outputs paying config.bitcoinAddress
RECURSIVE ReceivedAmount(_)
ReceivedAmount(vout) ==
    IF vout = <<>> THEN 0
    ELSE (IF Head(vout).scriptpubkey_address = bitcoinAddress THEN Head(vout).value ELSE 0)
         + ReceivedAmount(Tail(vout))

\* a classification that asks for more than the minimum
MintingStatusAbove(receivedAmount, senderAddress) ==
    IF receivedAmount > minimumSatsForBitbar THEN "pending" ELSE "not_required"

\* minting_status of a new row
MintingStatus(receivedAmount, senderAddress) ==
    IF receivedAmount >= minimumSatsForBitbar THEN "pending" ELSE "not_required"

\* txInfo, with the columns the INSERT leaves NULL
TxInfo(tx, t) ==
    [txid |-> tx.txid,
     timestamp |-> t,
     amount |-> ReceivedAmount(tx.vout),
     block_height |-> tx.status.block_height,
     requires_minting |-> IF ReceivedAmount(tx.vout) >= minimumSatsForBitbar THEN 1 ELSE 0,
     minting_status |-> MintingStatus(ReceivedAmount(tx.vout), SenderAddress(tx)),
     sender_address |-> SenderAddress(tx),
     confirmations |-> 0,
     inscription_id |-> Null,
     inscription_timestamp |-> None]

-----------------------------------------------------------------------------
(* Monitor.Poller: setInterval(monitorAddress, config.checkInterval) *)

Pollers == 1..MaxTicks

Requests == 1..MaxRequests

\* the txids of the transactions the explorer knows
KnownTxIds == { x.txid : x \in chain }

\* slot 0 holds the request the Worker's confirmMint sent
Slots == 0..MaxRequests

\* timer firings and confirm-mint requests so far
Ops == ticks + Cardinality({ r \in Requests : req[r].pc # "free" })

IdlePoll == [pc |-> "idle", txs |-> <<>>, txInfo |-> <<>>, caught |-> FALSE]

\* where monitorAddress goes after one processTransaction returned
AfterTx(rest) ==
    [pc |-> IF rest = <<>> THEN "idle" ELSE "loop", txs |-> rest, txInfo |-> <<>>,
     caught |-> FALSE]

\* where monitorAddress goes after a processTransaction whose catch ran (lines
\* 140-143): on to the rest of the listing, as after any other call; caught
\* tells the two apart until the next call
AfterCaught(rest) == [AfterTx(rest) EXCEPT !.caught = (rest # <<>>)]

\* a monitorAddress execution is between its first and its last statement
Running(p) == poll[p].pc # "idle"

\* the timer fires, one period after the last firing: a new monitorAddress
\* starts, whatever the earlier ones do
MonitorTick(p) ==
    /\ ticks < MaxTicks
    /\ Ops < MaxOps
    /\ poll[p].pc = "idle"
    /\ \A q \in Pollers : q < p => Running(q)
    /\ poll' = [poll EXCEPT ![p] = [IdlePoll EXCEPT !.pc = "fetch"]]
    /\ ticks' = ticks + 1
    /\ now' = now + 1
    /\ UNCHANGED <<db, seenAgain, chain, replay, swept, req>>
    /\ UNCHANGED wvars

\* axios.get resolved with the listing resp
FetchOk(p, resp) ==
    /\ poll[p].pc = "fetch"
    /\ poll' = [poll EXCEPT ![p] = [IdlePoll EXCEPT !.pc = IF resp = <<>> THEN "idle" ELSE "loop",
                                               !.txs = resp]]
    /\ UNCHANGED <<db, now, ticks, seenAgain, chain, replay, swept, req>>
    /\ UNCHANGED wvars

\* the failure path of the draft server4.js: fetchTransactions answers [] and
\* the sweep of the rows that are not pending and older than this tick still runs
FetchFailThenSweep(p) ==
    /\ poll[p].pc = "fetch"
    /\ poll' = [poll EXCEPT ![p] = IdlePoll]
    /\ db' = { r \in db : r.minting_status = "pending" \/ r.timestamp >= now }
    /\ UNCHANGED <<now, ticks, seenAgain, chain, replay, swept, req>>
    /\ UNCHANGED wvars

\* axios.get rejected (timeout, connection failure, non-2xx): caught at line 167
FetchFail(p) ==
    /\ poll[p].pc = "fetch"
    /\ poll' = [poll EXCEPT ![p] = IdlePoll]
    /\ UNCHANGED <<db, now, ticks, seenAgain, chain, replay, swept, req>>
    /\ UNCHANGED wvars

\* a processTransaction without the test of lines 107-109
ProcessSelectNoZeroCheck(p) ==
    /\ poll[p].pc = "loop"
    /\ LET tx == Head(poll[p].txs)
           rest == Tail(poll[p].txs)
       IN IF SelectTx(db, tx.txid) # {}
          THEN /\ poll' = [poll EXCEPT ![p] = AfterTx(rest)]
               /\ seenAgain' = seenAgain \cup Found(db, tx.txid)
          ELSE /\ poll' = [poll EXCEPT ![p] = [@ EXCEPT !.pc = "insert",
                                                        !.txInfo = <<TxInfo(tx, now)>>,
                                                        !.caught = FALSE]]
               /\ UNCHANGED seenAgain
    /\ UNCHANGED <<db, now, ticks, chain, replay, swept, req>>
    /\ UNCHANGED wvars

\* processTransaction up to its INSERT: the SELECT resolved
ProcessSelect(p) ==
    /\ poll[p].pc = "loop"
    /\ LET tx == Head(poll[p].txs)
           rest == Tail(poll[p].txs)
       IN IF SelectTx(db, tx.txid) # {}
          THEN /\ poll' = [poll EXCEPT ![p] = AfterTx(rest)]
               /\ seenAgain' = seenAgain \cup Found(db, tx.txid)
          ELSE IF ReceivedAmount(tx.vout) = 0
          THEN /\ poll' = [poll EXCEPT ![p] = AfterTx(rest)]
               /\ UNCHANGED seenAgain
          ELSE /\ poll' = [poll EXCEPT ![p] = [@ EXCEPT !.pc = "insert",
                                                        !.txInfo = <<TxInfo(tx, now)>>,
                                                        !.caught = FALSE]]
               /\ UNCHANGED seenAgain
    /\ UNCHANGED <<db, now, ticks, chain, replay, swept, req>>
    /\ UNCHANGED wvars

\* an INSERT whose PRIMARY KEY error is left to the catch of monitorAddress,
\* which ends the tick
ProcessInsertUncaught(p) ==
    /\ poll[p].pc = "insert"
    /\ LET rest == Tail(poll[p].txs)
           row == poll[p].txInfo[1]
       IN /\ db' = InsertTx(db, row)
          /\ poll' = [poll EXCEPT ![p] = IF PrimaryKeyConflict(db, row)
                                         THEN IdlePoll ELSE AfterTx(rest)]
          /\ seenAgain' = IF PrimaryKeyConflict(db, row)
                          THEN seenAgain \cup Found(db, row.txid) ELSE seenAgain
    /\ UNCHANGED <<now, ticks, chain, replay, swept, req>>
    /\ UNCHANGED wvars

\* the INSERT ran; a PRIMARY KEY error is caught at line 140
ProcessInsert(p) ==
    /\ poll[p].pc = "insert"
    /\ LET rest == Tail(poll[p].txs)
           row == poll[p].txInfo[1]
       IN /\ db' = InsertTx(db, row)
          /\ poll' = [poll EXCEPT ![p] = IF PrimaryKeyConflict(db, row)
                                         THEN AfterCaught(rest) ELSE AfterTx(rest)]
          /\ seenAgain' = IF PrimaryKeyConflict(db, row)
                          THEN seenAgain \cup Found(db, row.txid) ELSE seenAgain
    /\ UNCHANGED <<now, ticks, chain, replay, swept, req>>
    /\ UNCHANGED wvars

-----------------------------------------------------------------------------
(* The Monitor of the draft server4.js: details request, no catch around the
   INSERT, retention sweep *)

\* 30 days, the age in ms at line 180 of server4.js, in timer periods of
\* config.checkInterval = 10000 ms
RetentionPeriods == 259200

\* where monitorAddress of server4.js goes after one processTransaction returned
AfterTx4(rest) ==
    [pc |-> IF rest = <<>> THEN "sweep" ELSE "loop", txs |-> rest, txInfo |-> <<>>,
     caught |-> FALSE]

\* fetchTransactions resolved with a listing
Fetch4Ok(p, resp) ==
    /\ poll[p].pc = "fetch"
    /\ poll' = [poll EXCEPT ![p] = AfterTx4(resp)]
    /\ UNCHANGED <<db, now, ticks, seenAgain, chain, replay, swept, req>>
    /\ UNCHANGED wvars

\* fetchTransactions caught an error and returned []: the loop has nothing to
\* do and the sweep runs
Fetch4Fail(p) ==
    /\ poll[p].pc = "fetch"
    /\ poll' = [poll EXCEPT ![p] = AfterTx4(<<>>)]
    /\ UNCHANGED <<db, now, ticks, seenAgain, chain, replay, swept, req>>
    /\ UNCHANGED wvars

\* processTransaction of server4.js: the SELECT resolved
Process4Select(p) ==
    /\ poll[p].pc = "loop"
    /\ LET tx == Head(poll[p].txs)
           rest == Tail(poll[p].txs)
       IN IF SelectTx(db, tx.txid) # {}
          THEN /\ poll' = [poll EXCEPT ![p] = AfterTx4(rest)]
               /\ seenAgain' = seenAgain \cup Found(db, tx.txid)
          ELSE /\ poll' = [poll EXCEPT ![p] = [@ EXCEPT !.pc = "details"]]
               /\ UNCHANGED seenAgain
    /\ UNCHANGED <<db, now, ticks, chain, replay, swept, req>>
    /\ UNCHANGED wvars

\* fetchTransactionDetails resolved (ok) or failed and returned null; txInfo
\* is computed, without a check of the amount
Process4Details(p, ok) ==
    /\ poll[p].pc = "details"
    /\ LET tx == Head(poll[p].txs)
       IN poll' = [poll EXCEPT ![p] =
                     [@ EXCEPT !.pc = "insert",
                               !.txInfo = <<[TxInfo(tx, now) EXCEPT !.sender_address =
                                                IF ok THEN SenderAddress(tx) ELSE Null]>>]]
    /\ UNCHANGED <<db, now, ticks, seenAgain, chain, replay, swept, req>>
    /\ UNCHANGED wvars

\* the INSERT ran; a PRIMARY KEY error is not caught in processTransaction and
\* ends the tick in the catch of monitorAddress, before the sweep
Process4Insert(p) ==
    /\ poll[p].pc = "insert"
    /\ LET rest == Tail(poll[p].txs)
           row == poll[p].txInfo[1]
       IN /\ db' = InsertTx(db, row)
          /\ poll' = [poll EXCEPT ![p] = IF PrimaryKeyConflict(db, row)
                                         THEN IdlePoll ELSE AfterTx4(rest)]
          /\ seenAgain' = IF PrimaryKeyConflict(db, row)
                          THEN seenAgain \cup Found(db, row.txid) ELSE seenAgain
    /\ UNCHANGED <<now, ticks, chain, replay, swept, req>>
    /\ UNCHANGED wvars

\* DELETE FROM transactions WHERE timestamp < ?: a sweep that spares nothing
SweepAnyStatus4(p) ==
    /\ poll[p].pc = "sweep"
    /\ db' = { r \in db : ~(r.timestamp < now - RetentionPeriods) }
    /\ swept' = swept \cup { r.txid : r \in db \ db' }
    /\ poll' = [poll EXCEPT ![p] = IdlePoll]
    /\ UNCHANGED <<now, ticks, seenAgain, chain, replay, req>>
    /\ UNCHANGED wvars

\* DELETE FROM transactions WHERE timestamp < ? AND minting_status != 'pending'
Sweep4(p) ==
    /\ poll[p].pc = "sweep"
    /\ db' = { r \in db : ~(r.timestamp < now - RetentionPeriods
                            /\ r.minting_status # "pending") }
    /\ swept' = swept \cup { r.txid : r \in db \ db' }
    /\ poll' = [poll EXCEPT ![p] = IdlePoll]
    /\ UNCHANGED <<now, ticks, seenAgain, chain, replay, req>>
    /\ UNCHANGED wvars

\* a retention horizon goes by in which no request arrives and the explorer
\* reports nothing the table does not hold
QuietSpell ==
    /\ now < MaxQuietSpells * RetentionPeriods
    /\ \A p \in Pollers : ~Running(p)
    /\ \A r \in Slots : req[r].pc \in {"free", "done"}
    /\ now' = now + RetentionPeriods
    /\ UNCHANGED <<db, poll, ticks, seenAgain, chain, replay, swept, req>>
    /\ UNCHANGED wvars

-----------------------------------------------------------------------------
(* Monitor.API *)

FreeReq == [pc |-> "free", txid |-> Null, inscription_id |-> Null, code |-> 0, error |-> Null]

\* the request is answered with status code and, unless 200, the error text of
\* the body; the slot keeps the txid of a success
Answer(q, code, error) ==
    [pc |-> "done", txid |-> IF code = 200 THEN q.txid ELSE Null,
     inscription_id |-> Null, code |-> code, error |-> error]

\* POST /api/confirm-mint arrives with body {txid, inscription_id}; either may be missing
ConfirmArrive(r, txid, inscription_id) ==
    /\ req[r].pc = "free"
    /\ \A q \in Requests : q < r => req[q].pc # "free"
    /\ Ops < MaxOps
    /\ req' = [req EXCEPT ![r] =
                 IF txid = Null
                 THEN Answer(req[r], 400, "Transaction ID required")
                 ELSE [FreeReq EXCEPT !.pc = "select", !.txid = txid,
                                      !.inscription_id = inscription_id]]
    /\ UNCHANGED <<db, now, poll, ticks, seenAgain, chain, replay, swept>>
    /\ UNCHANGED wvars

\* a handler without the check of lines 244-246: every record found is updated
ConfirmSelectAnyStatus(r) ==
    /\ req[r].pc = "select"
    /\ req' = [req EXCEPT ![r] =
                 IF SelectTx(db, req[r].txid) = {}
                 THEN Answer(req[r], 404, "Transaction not found")
                 ELSE [@ EXCEPT !.pc = "update"]]
    /\ UNCHANGED <<db, now, poll, ticks, seenAgain, chain, replay, swept>>
    /\ UNCHANGED wvars

\* the SELECT of confirm-mint resolved: 404, 400 or on to the UPDATE
ConfirmSelect(r) ==
    /\ req[r].pc = "select"
    /\ LET found == SelectTx(db, req[r].txid)
       IN req' = [req EXCEPT ![r] =
                    IF found = {} THEN Answer(req[r], 404, "Transaction not found")
                    ELSE IF \E x \in found : x.minting_status = "completed"
                         THEN Answer(req[r], 400, "Transaction already minted")
                         ELSE [@ EXCEPT !.pc = "update"]]
    /\ UNCHANGED <<db, now, poll, ticks, seenAgain, chain, replay, swept>>
    /\ UNCHANGED wvars

\* the UPDATE of confirm-mint ran and the success response is sent
ConfirmUpdate(r) ==
    /\ req[r].pc = "update"
    /\ db' = UpdateCompleted(db, req[r].txid, req[r].inscription_id, now)
    /\ req' = [req EXCEPT ![r] = Answer(req[r], 200, Null)]
    /\ UNCHANGED <<now, poll, ticks, seenAgain, chain, replay, swept>>
    /\ UNCHANGED wvars

-----------------------------------------------------------------------------
(* Worker: configuration and the maps of mint.js:40-41 *)

\* config.maxRetries
maxRetries == 3

\* mintingAttempts.get(txid) || 0
GetAttempts(m, txid) == IF txid \in DOMAIN m THEN m[txid] ELSE 0

\* mintingAttempts.set(txid, n)
SetAttempts(m, txid, n) == [x \in DOMAIN m \cup {txid} |-> IF x = txid THEN n ELSE m[x]]

\* a map that keeps the entry of a confirmed txid
KeepAttempts(m, txid) == m

\* mintingAttempts.delete(txid)
DeleteAttempts(m, txid) == [x \in DOMAIN m \ {txid} |-> m[x]]

\* the orders in which the rows of a result set can arrive
Orderings(S) ==
    { s \in [1..Cardinality(S) -> S] : \A i, j \in 1..Cardinality(S) : i # j => s[i] # s[j] }

-----------------------------------------------------------------------------
(* Worker.Executor: the inscription subprocess and its output *)

\* the id the tool gives the n-th inscription made for txid
MintId(txid, n) == txid \o "m" \o ToString(n)

\* what a subprocess run can produce: exit status, shape of stdout, shape of stderr
\*   stdout "json_id":   {"inscriptions":[{"id": <id>}]}
\*   stdout "json_none": a JSON object without inscriptions
\*   stdout "line_id":   the text line `inscription_id: <id>`
\*   stderr "error":     text containing 'insufficient funds', 'error' or 'failed'
Outcome(exit, stdout, stderr) == [exit |-> exit, stdout |-> stdout, stderr |-> stderr]

Outcomes ==
    { Outcome("ok", "json_id", "empty"), Outcome("ok", "json_id", "warning"),
      Outcome("ok", "json_id", "error"), Outcome("ok", "json_none", "empty"),
      Outcome("ok", "line_id", "empty"), Outcome("ok", "empty", "error"),
      Outcome("ok", "empty", "warning"), Outcome("fail", "empty", "error") }

Success == Outcome("ok", "json_id", "empty")

\* parseInscriptionId of mint.js: JSON.parse, then inscriptions[0].id
parseInscriptionId(stdout, id) == IF stdout = "json_id" THEN id ELSE Null

\* executeMintCommand after execAsync settled: its return value, and whether
\* saveMint was called on the way
ExecuteMintResult(outcome, id) ==
    IF outcome.exit = "ok" /\ outcome.stdout # "empty"
       /\ parseInscriptionId(outcome.stdout, id) # Null
    THEN [success |-> TRUE, inscriptionId |-> parseInscriptionId(outcome.stdout, id),
          saved |-> TRUE]
    ELSE [success |-> FALSE, inscriptionId |-> Null, saved |-> FALSE]

\* saveMint: readMints (which yields [] when the file cannot be read or parsed),
\* push, writeFile (whose failure is caught and logged)
SaveMint(file, mintData, io) ==
    CASE io = "ok" -> Append(file, mintData)
      [] io = "read_fails" -> <<mintData>>
      [] io = "write_fails" -> file

JournalIo == {"ok", "read_fails", "write_fails"}

-----------------------------------------------------------------------------
(* Worker.Scheduler: while (true) { await checkPendingMints(); await sleep } *)

NoTx == [txid |-> Null, amount |-> 0, timestamp |-> 0, sender_address |-> Null]

Sleeping == [pc |-> "sleep", list |-> <<>>, tx |-> NoTx, attempts |-> 0, id |-> Null]

\* the loop of checkPendingMints moves on to the rest of the list
Continue(rest) == [Sleeping EXCEPT !.pc = IF rest = <<>> THEN "sleep" ELSE "loop", !.list = rest]

\* the sleep of the scheduler loop ended: checkPendingMints sends its GET
WorkerTick(limit) ==
    /\ w.pc = "sleep"
    /\ wticks < limit
    /\ w' = [Sleeping EXCEPT !.pc = "fetch"]
    /\ wticks' = wticks + 1
    /\ UNCHANGED <<mintingAttempts, activeOperations, mints, procs, invocations, confirmed, listed>>
    /\ UNCHANGED mvars

\* a scheduler that calls checkPendingMints once and ends
WorkerOnce == WorkerTick(1)

\* the same step of the scheduler loop, its rounds not counted: the loop has
\* no last round
WorkerLoop ==
    /\ w.pc = "sleep"
    /\ w' = [Sleeping EXCEPT !.pc = "fetch"]
    /\ UNCHANGED <<wticks, mintingAttempts, activeOperations, mints, procs, invocations, confirmed, listed>>
    /\ UNCHANGED mvars

\* GET /api/pending-mints answered: the Monitor ran its query, rows in some order
WorkerFetchOk(order) ==
    /\ w.pc = "fetch"
    /\ order \in Orderings(PendingMintsQuery(db))
    /\ w' = [Sleeping EXCEPT !.pc = IF order = <<>> THEN "none" ELSE "loop", !.list = order]
    /\ listed' = listed \cup { order[i].txid : i \in 1..Len(order) }
    /\ UNCHANGED <<wticks, mintingAttempts, activeOperations, mints, procs, invocations, confirmed>>
    /\ UNCHANGED mvars

\* the list is empty: 'No pending mints found' is logged and the call returns
NoPendingMints ==
    /\ w.pc = "none"
    /\ w' = Sleeping
    /\ UNCHANGED <<wticks, mintingAttempts, activeOperations, mints, procs, invocations, confirmed, listed>>
    /\ UNCHANGED mvars

\* GET /api/pending-mints answered by the Monitor of server4.js
WorkerFetch4Ok(order) ==
    /\ w.pc = "fetch"
    /\ order \in Orderings(PendingMintsQuery4(db))
    /\ w' = [Sleeping EXCEPT !.pc = IF order = <<>> THEN "none" ELSE "loop", !.list = order]
    /\ listed' = listed \cup { order[i].txid : i \in 1..Len(order) }
    /\ UNCHANGED <<wticks, mintingAttempts, activeOperations, mints, procs, invocations, confirmed>>
    /\ UNCHANGED mvars

\* the GET failed: control is in the catch of checkPendingMints
WorkerFetchFail ==
    /\ w.pc = "fetch"
    /\ w' = [Sleeping EXCEPT !.pc = "failed"]
    /\ UNCHANGED <<wticks, mintingAttempts, activeOperations, mints, procs, invocations, confirmed, listed>>
    /\ UNCHANGED mvars

\* a catch that throws the error on: the scheduler loop ends
CheckPendingMintsRethrow ==
    /\ w.pc = "failed"
    /\ w' = [Sleeping EXCEPT !.pc = "ended"]
    /\ UNCHANGED <<wticks, mintingAttempts, activeOperations, mints, procs, invocations, confirmed, listed>>
    /\ UNCHANGED mvars

\* the catch of checkPendingMints logged the error (lines 232-238) and the
\* call returns to the scheduler loop
CheckPendingMintsCatch ==
    /\ w.pc = "failed"
    /\ w' = Sleeping
    /\ UNCHANGED <<wticks, mintingAttempts, activeOperations, mints, procs, invocations, confirmed, listed>>
    /\ UNCHANGED mvars

\* a loop that starts the subprocess for every listed txid and moves on without
\* looking at the in-flight set or awaiting the result
ProcessPendingMintDetached ==
    /\ w.pc = "loop"
    /\ LET tx == Head(w.list)
           rest == Tail(w.list)
       IN /\ activeOperations' = activeOperations \cup {tx.txid}
          /\ procs' = [procs EXCEPT ![tx.txid] = @ + 1]
          /\ invocations' = [invocations EXCEPT ![tx.txid] = @ + 1]
          /\ w' = Continue(rest)
    /\ UNCHANGED <<wticks, mintingAttempts, mints, confirmed, listed>>
    /\ UNCHANGED mvars

\* a loop without the retry limit of lines 166-169
ProcessPendingMintNoLimit ==
    /\ w.pc = "loop"
    /\ LET tx == Head(w.list)
           rest == Tail(w.list)
           attempts == GetAttempts(mintingAttempts, tx.txid)
       IN IF tx.txid \in activeOperations
          THEN /\ w' = Continue(rest)
               /\ UNCHANGED <<mintingAttempts, activeOperations, procs, invocations>>
          ELSE /\ activeOperations' = activeOperations \cup {tx.txid}
               /\ procs' = [procs EXCEPT ![tx.txid] = @ + 1]
               /\ invocations' = [invocations EXCEPT ![tx.txid] = @ + 1]
               /\ w' = [pc |-> "exec", list |-> rest, tx |-> tx, attempts |-> attempts,
                        id |-> Null]
               /\ UNCHANGED mintingAttempts
    /\ UNCHANGED <<wticks, mints, confirmed, listed>>
    /\ UNCHANGED mvars

\* a loop that skips every txid mints.json already has an inscription for
ProcessPendingMintJournalAware ==
    /\ w.pc = "loop"
    /\ LET tx == Head(w.list)
           rest == Tail(w.list)
           attempts == GetAttempts(mintingAttempts, tx.txid)
       IN IF \/ tx.txid \in activeOperations
             \/ attempts >= maxRetries
             \/ \E i \in 1..Len(mints) : mints[i].txid = tx.txid
          THEN /\ w' = Continue(rest)
               /\ UNCHANGED <<mintingAttempts, activeOperations, procs, invocations>>
          ELSE /\ activeOperations' = activeOperations \cup {tx.txid}
               /\ procs' = [procs EXCEPT ![tx.txid] = @ + 1]
               /\ invocations' = [invocations EXCEPT ![tx.txid] = @ + 1]
               /\ w' = [pc |-> "exec", list |-> rest, tx |-> tx, attempts |-> attempts,
                        id |-> Null]
               /\ UNCHANGED mintingAttempts
    /\ UNCHANGED <<wticks, mints, confirmed, listed>>
    /\ UNCHANGED mvars

\* a handler without the test of the sender at lines 181-185
ProcessPendingMintAnySender ==
    /\ w.pc = "loop"
    /\ LET tx == Head(w.list)
           rest == Tail(w.list)
           attempts == GetAttempts(mintingAttempts, tx.txid)
       IN IF tx.txid \in activeOperations \/ attempts >= maxRetries
          THEN /\ w' = Continue(rest)
               /\ UNCHANGED <<mintingAttempts, activeOperations, procs, invocations>>
          ELSE /\ activeOperations' = activeOperations \cup {tx.txid}
               /\ procs' = [procs EXCEPT ![tx.txid] = @ + 1]
               /\ invocations' = [invocations EXCEPT ![tx.txid] = @ + 1]
               /\ w' = [pc |-> "exec", list |-> rest, tx |-> tx, attempts |-> attempts,
                        id |-> Null]
               /\ UNCHANGED mintingAttempts
    /\ UNCHANGED <<wticks, mints, confirmed, listed>>
    /\ UNCHANGED mvars

\* one iteration of the loop at line 223 up to the await of execAsync:
\* the in-flight checks, the retry limit, the missing sender, the subprocess start
ProcessPendingMint ==
    /\ w.pc = "loop"
    /\ LET tx == Head(w.list)
           rest == Tail(w.list)
           attempts == GetAttempts(mintingAttempts, tx.txid)
       IN IF tx.txid \in activeOperations \/ attempts >= maxRetries
          THEN /\ w' = Continue(rest)
               /\ UNCHANGED <<mintingAttempts, activeOperations, procs, invocations>>
          ELSE IF tx.sender_address = Null
          THEN /\ mintingAttempts' = SetAttempts(mintingAttempts, tx.txid, maxRetries)
               /\ w' = Continue(rest)
               /\ UNCHANGED <<activeOperations, procs, invocations>>
          ELSE /\ activeOperations' = activeOperations \cup {tx.txid}
               /\ procs' = [procs EXCEPT ![tx.txid] = @ + 1]
               /\ invocations' = [invocations EXCEPT ![tx.txid] = @ + 1]
               /\ w' = [pc |-> "exec", list |-> rest, tx |-> tx, attempts |-> attempts,
                        id |-> Null]
               /\ UNCHANGED mintingAttempts
    /\ UNCHANGED <<wticks, mints, confirmed, listed>>
    /\ UNCHANGED mvars

\* giving up an attempt without the finally of lines 205-207
RetryStaysInFlight ==
    /\ mintingAttempts' = SetAttempts(mintingAttempts, w.tx.txid, w.attempts + 1)
    /\ UNCHANGED activeOperations
    /\ w' = Continue(w.list)

\* giving up an attempt without counting it
RetryUncounted ==
    /\ UNCHANGED mintingAttempts
    /\ activeOperations' = activeOperations \ {w.tx.txid}
    /\ w' = Continue(w.list)

\* processPendingMint gives up this attempt: lines 199-200 and the finally
Retry ==
    /\ mintingAttempts' = SetAttempts(mintingAttempts, w.tx.txid, w.attempts + 1)
    /\ activeOperations' = activeOperations \ {w.tx.txid}
    /\ w' = Continue(w.list)

\* execAsync settled with outcome; executeMintCommand returns and
\* processPendingMint either sends the confirm POST or counts a failed attempt
ExecReturn(outcome, io) ==
    /\ w.pc = "exec"
    /\ procs[w.tx.txid] > 0
    /\ procs' = [procs EXCEPT ![w.tx.txid] = @ - 1]
    /\ LET result == ExecuteMintResult(outcome, MintId(w.tx.txid, invocations[w.tx.txid]))
       IN /\ mints' = IF result.saved
                      THEN SaveMint(mints, [txid |-> w.tx.txid,
                                            inscriptionId |-> result.inscriptionId,
                                            destination |-> w.tx.sender_address], io)
                      ELSE mints
          /\ IF result.success /\ result.inscriptionId # Null
             THEN /\ w' = [w EXCEPT !.pc = "confirm", !.id = result.inscriptionId]
                  /\ UNCHANGED <<mintingAttempts, activeOperations>>
             ELSE Retry
    /\ UNCHANGED <<wticks, invocations, confirmed, listed>>
    /\ UNCHANGED mvars

\* the POST of confirmMint reaches the Monitor: lines 232-238 of server.js
WorkerConfirmArrive ==
    /\ w.pc = "confirm"
    /\ req[0].pc = "free"
    /\ req' = [req EXCEPT ![0] = [FreeReq EXCEPT !.pc = "select", !.txid = w.tx.txid,
                                                  !.inscription_id = w.id]]
    /\ w' = [w EXCEPT !.pc = "wait"]
    /\ UNCHANGED <<wticks, mintingAttempts, activeOperations, mints, procs, invocations, confirmed, listed>>
    /\ UNCHANGED <<db, now, poll, ticks, seenAgain, chain, replay, swept>>

\* the POST of confirmMint fails before it reaches the Monitor
WorkerConfirmFail ==
    /\ w.pc = "confirm"
    /\ Retry
    /\ UNCHANGED <<wticks, mints, procs, invocations, confirmed, listed>>
    /\ UNCHANGED mvars

\* the Monitor's answer arrives: confirmMint returns true on 200, false otherwise
WorkerConfirmReturn ==
    /\ w.pc = "wait"
    /\ req[0].pc = "done"
    /\ req' = [req EXCEPT ![0] = FreeReq]
    /\ IF req[0].code = 200
       THEN /\ mintingAttempts' = DeleteAttempts(mintingAttempts, w.tx.txid)
            /\ activeOperations' = activeOperations \ {w.tx.txid}
            /\ confirmed' = confirmed \cup {w.tx.txid}
            /\ w' = Continue(w.list)
       ELSE /\ Retry
            /\ UNCHANGED confirmed
    /\ UNCHANGED <<wticks, mints, procs, invocations, listed>>
    /\ UNCHANGED <<db, now, poll, ticks, seenAgain, chain, replay, swept>>

-----------------------------------------------------------------------------
(* Worker: the status endpoint *)

\* getServiceStatus().pendingRetries: one entry per key of mintingAttempts
pendingRetries(m) ==
    { [txid |-> t, attempts |-> m[t], maxRetries |-> maxRetries] : t \in DOMAIN m }

-----------------------------------------------------------------------------
(* Specifications *)

InitState ==
    /\ db = {}
    /\ now = 0
    /\ poll = [p \in Pollers |-> IdlePoll]
    /\ ticks = 0
    /\ chain \in Chains
    /\ seenAgain = {}
    /\ swept = {}
    /\ req = [r \in Slots |-> FreeReq]
    /\ w = Sleeping
    /\ wticks = 0
    /\ mintingAttempts = [x \in {} |-> 0]
    /\ activeOperations = {}
    /\ mints = <<>>
    /\ procs = [t \in TxIds |-> 0]
    /\ invocations = [t \in TxIds |-> 0]
    /\ confirmed = {}
    /\ listed = {}

Init == InitState /\ replay = <<>>

\* the Monitor, with any clients of its HTTP interface
Next ==
    \/ \E p \in Pollers : MonitorTick(p)
    \/ \E p \in Pollers, resp \in Listings(chain) : FetchOk(p, resp)
    \/ \E p \in Pollers : FetchFail(p)
    \/ \E p \in Pollers : ProcessSelect(p)
    \/ \E p \in Pollers : ProcessInsert(p)
    \/ \E r \in Requests, t \in KnownTxIds \cup {Null} :
          \E i \in {InscriptionOf(r), Null} : ConfirmArrive(r, t, i)
    \/ \E r \in Slots : ConfirmSelect(r)
    \/ \E r \in Slots : ConfirmUpdate(r)

Spec == Init /\ [][Next]_vars

\* the Monitor and the Worker together
SysNext ==
    \/ \E p \in Pollers : Ops < MaxSysOps /\ (\A q \in Pollers : ~Running(q)) /\ MonitorTick(p)
    \/ \E p \in Pollers, resp \in Listings(chain) : FetchOk(p, resp)
    \/ \E p \in Pollers : FetchFail(p)
    \/ \E p \in Pollers : ProcessSelect(p)
    \/ \E p \in Pollers : ProcessInsert(p)
    \/ \E r \in Requests, t \in KnownTxIds \cup {Null} :
          \E i \in {InscriptionOf(r), Null} : Ops < MaxSysOps /\ ConfirmArrive(r, t, i)
    \/ \E r \in Slots : ConfirmSelect(r)
    \/ \E r \in Slots : ConfirmUpdate(r)
    \/ WorkerTick(MaxWorkerTicks)
    \/ \E order \in Orderings(PendingMintsQuery(db)) : WorkerFetchOk(order)
    \/ WorkerFetchFail
    \/ CheckPendingMintsCatch
    \/ NoPendingMints
    \/ ProcessPendingMint
    \/ \E outcome \in Outcomes : ExecReturn(outcome, "ok")
    \/ WorkerConfirmArrive
    \/ WorkerConfirmFail
    \/ WorkerConfirmReturn

SpecSystem == Init /\ [][SysNext]_vars

\* the Monitor alone, with an explorer that answers every request with the
\* same listing
InitReplay == InitState /\ replay \in Listings(chain)

ReplayNext ==
    \/ \E p \in Pollers : MonitorTick(p)
    \/ \E p \in Pollers : FetchOk(p, replay)
    \/ \E p \in Pollers : ProcessSelect(p)
    \/ \E p \in Pollers : ProcessInsert(p)

SpecReplay == InitReplay /\ [][ReplayNext]_vars

\* the Monitor alone, with an explorer that either fails or answers with one
\* listing that is not empty
InitOutage == InitState /\ replay \in Listings(chain) \ {<<>>}

OutageNext ==
    \/ \E p \in Pollers : MonitorTick(p)
    \/ \E p \in Pollers : FetchOk(p, replay)
    \/ \E p \in Pollers : FetchFail(p)
    \/ \E p \in Pollers : ProcessSelect(p)
    \/ \E p \in Pollers : ProcessInsert(p)

SpecOutage == InitOutage /\ [][OutageNext]_vars

\* the Monitor of server4.js, one tick at a time, with clients that confirm
\* the transactions the explorer knows
Next4 ==
    \/ \E p \in Pollers : (\A q \in Pollers : ~Running(q)) /\ MonitorTick(p)
    \/ \E p \in Pollers, resp \in Listings(chain) : Fetch4Ok(p, resp)
    \/ \E p \in Pollers : Fetch4Fail(p)
    \/ \E p \in Pollers : Process4Select(p)
    \/ \E p \in Pollers, ok \in BOOLEAN : Process4Details(p, ok)
    \/ \E p \in Pollers : Process4Insert(p)
    \/ \E p \in Pollers : Sweep4(p)
    \/ QuietSpell
    \/ \E r \in Requests, t \in KnownTxIds : ConfirmArrive(r, t, InscriptionOf(r))
    \/ \E r \in Slots : ConfirmSelect(r)
    \/ \E r \in Slots : ConfirmUpdate(r)

Spec4 == Init /\ [][Next4]_vars

\* the Monitor and the Worker with no other client, an inscription command
\* that always succeeds and a confirm POST that always reaches the Monitor
HappyNext ==
    \/ \E p \in Pollers : (\A q \in Pollers : ~Running(q)) /\ MonitorTick(p)
    \/ \E p \in Pollers, resp \in Listings(chain) : FetchOk(p, resp)
    \/ \E p \in Pollers : FetchFail(p)
    \/ \E p \in Pollers : ProcessSelect(p)
    \/ \E p \in Pollers : ProcessInsert(p)
    \/ ConfirmSelect(0)
    \/ ConfirmUpdate(0)
    \/ WorkerTick(MaxWorkerTicks)
    \/ \E order \in Orderings(PendingMintsQuery(db)) : WorkerFetchOk(order)
    \/ WorkerFetchFail
    \/ CheckPendingMintsCatch
    \/ NoPendingMints
    \/ ProcessPendingMint
    \/ ExecReturn(Success, "ok")
    \/ WorkerConfirmArrive
    \/ WorkerConfirmReturn

SpecHappy == Init /\ [][HappyNext]_vars

\* the Monitor and the Worker with no other client, every outcome of the
\* inscription command and a confirm POST that may fail on its way
RetryNext ==
    \/ \E p \in Pollers : Ops < MaxSysOps /\ (\A q \in Pollers : ~Running(q)) /\ MonitorTick(p)
    \/ \E p \in Pollers, resp \in Listings(chain) : FetchOk(p, resp)
    \/ \E p \in Pollers : FetchFail(p)
    \/ \E p \in Pollers : ProcessSelect(p)
    \/ \E p \in Pollers : ProcessInsert(p)
    \/ ConfirmSelect(0)
    \/ ConfirmUpdate(0)
    \/ WorkerTick(MaxRetryTicks)
    \/ \E order \in Orderings(PendingMintsQuery(db)) : WorkerFetchOk(order)
    \/ WorkerFetchFail
    \/ CheckPendingMintsCatch
    \/ NoPendingMints
    \/ ProcessPendingMint
    \/ \E outcome \in Outcomes : ExecReturn(outcome, "ok")
    \/ WorkerConfirmArrive
    \/ WorkerConfirmFail
    \/ WorkerConfirmReturn

SpecRetry == Init /\ [][RetryNext]_vars

\* the Worker with the Monitor of the draft server4.js, whose pending list
\* also holds the records without sender; no other client
Worker4Next ==
    \/ \E p \in Pollers : Ops < MaxSysOps /\ (\A q \in Pollers : ~Running(q)) /\ MonitorTick(p)
    \/ \E p \in Pollers, resp \in Listings(chain) : Fetch4Ok(p, resp)
    \/ \E p \in Pollers : Fetch4Fail(p)
    \/ \E p \in Pollers : Process4Select(p)
    \/ \E p \in Pollers, ok \in BOOLEAN : Process4Details(p, ok)
    \/ \E p \in Pollers : Process4Insert(p)
    \/ \E p \in Pollers : Sweep4(p)
    \/ ConfirmSelect(0)
    \/ ConfirmUpdate(0)
    \/ WorkerTick(MaxWorkerTicks)
    \/ \E order \in Orderings(PendingMintsQuery4(db)) : WorkerFetch4Ok(order)
    \/ WorkerFetchFail
    \/ CheckPendingMintsCatch
    \/ NoPendingMints
    \/ ProcessPendingMint
    \/ \E outcome \in Outcomes : ExecReturn(outcome, "ok")
    \/ WorkerConfirmArrive
    \/ WorkerConfirmFail
    \/ WorkerConfirmReturn

SpecWorker4 == Init /\ [][Worker4Next]_vars

\* the Monitor and the Worker with no other client, every outcome of the
\* inscription command and a mints.json whose read or write may fail
JournalNext ==
    \/ \E p \in Pollers : Ops < MaxSysOps /\ (\A q \in Pollers : ~Running(q)) /\ MonitorTick(p)
    \/ \E p \in Pollers, resp \in Listings(chain) : FetchOk(p, resp)
    \/ \E p \in Pollers : FetchFail(p)
    \/ \E p \in Pollers : ProcessSelect(p)
    \/ \E p \in Pollers : ProcessInsert(p)
    \/ ConfirmSelect(0)
    \/ ConfirmUpdate(0)
    \/ WorkerTick(MaxWorkerTicks)
    \/ \E order \in Orderings(PendingMintsQuery(db)) : WorkerFetchOk(order)
    \/ WorkerFetchFail
    \/ CheckPendingMintsCatch
    \/ NoPendingMints
    \/ ProcessPendingMint
    \/ \E outcome \in Outcomes, io \in JournalIo : ExecReturn(outcome, io)
    \/ WorkerConfirmArrive
    \/ WorkerConfirmFail
    \/ WorkerConfirmReturn

SpecJournal == Init /\ [][JournalNext]_vars

\* what the Worker does, with a Monitor that its requests always reach
WorkerSteps ==
    \/ WorkerLoop
    \/ \E order \in Orderings(PendingMintsQuery(db)) : WorkerFetchOk(order)
    \/ NoPendingMints
    \/ ProcessPendingMint
    \/ \E outcome \in Outcomes : ExecReturn(outcome, "ok")
    \/ WorkerConfirmArrive
    \/ WorkerConfirmReturn

\* the Monitor handles the confirm POST of the Worker
WorkerConfirmHandled == ConfirmSelect(0) \/ ConfirmUpdate(0)

\* the Monitor and the Worker with no other client, a scheduler loop that
\* never ends, every outcome of the inscription command, and requests of the
\* Worker that always reach the Monitor and are answered
LiveNext ==
    \/ \E p \in Pollers : Ops < MaxSysOps /\ (\A q \in Pollers : ~Running(q)) /\ MonitorTick(p)
    \/ \E p \in Pollers, resp \in Listings(chain) : FetchOk(p, resp)
    \/ \E p \in Pollers : FetchFail(p)
    \/ \E p \in Pollers : ProcessSelect(p)
    \/ \E p \in Pollers : ProcessInsert(p)
    \/ WorkerConfirmHandled
    \/ WorkerSteps

\* every await of the Worker settles and the loop goes on; the Monitor answers
SpecLive ==
    /\ Init
    /\ [][LiveNext]_vars
    /\ WF_vars(WorkerSteps)
    /\ WF_vars(WorkerConfirmHandled)

\* what the command gives when it prints the JSON with an id and also writes
\* an error text to stderr
IdWithErrorText == Outcome("ok", "json_id", "error")

\* the Monitor and the Worker with no other client and a command whose every
\* run prints an id and an error text
StderrNext ==
    \/ \E p \in Pollers : Ops < MaxSysOps /\ (\A q \in Pollers : ~Running(q)) /\ MonitorTick(p)
    \/ \E p \in Pollers, resp \in Listings(chain) : FetchOk(p, resp)
    \/ \E p \in Pollers : FetchFail(p)
    \/ \E p \in Pollers : ProcessSelect(p)
    \/ \E p \in Pollers : ProcessInsert(p)
    \/ ConfirmSelect(0)
    \/ ConfirmUpdate(0)
    \/ WorkerTick(MaxWorkerTicks)
    \/ \E order \in Orderings(PendingMintsQuery(db)) : WorkerFetchOk(order)
    \/ WorkerFetchFail
    \/ CheckPendingMintsCatch
    \/ NoPendingMints
    \/ ProcessPendingMint
    \/ ExecReturn(IdWithErrorText, "ok")
    \/ WorkerConfirmArrive
    \/ WorkerConfirmFail
    \/ WorkerConfirmReturn

SpecStderr == Init /\ [][StderrNext]_vars

\* what the command gives when it prints the line `inscription_id: <id>`
IdLine == Outcome("ok", "line_id", "empty")

\* the Monitor and the Worker with no other client and a command whose every
\* run prints the id as a line; no run gets as far as the confirm POST
LineNext ==
    \/ \E p \in Pollers : Ops < MaxSysOps /\ (\A q \in Pollers : ~Running(q)) /\ MonitorTick(p)
    \/ \E p \in Pollers, resp \in Listings(chain) : FetchOk(p, resp)
    \/ \E p \in Pollers : FetchFail(p)
    \/ \E p \in Pollers : ProcessSelect(p)
    \/ \E p \in Pollers : ProcessInsert(p)
    \/ WorkerTick(MaxWorkerTicks)
    \/ \E order \in Orderings(PendingMintsQuery(db)) : WorkerFetchOk(order)
    \/ WorkerFetchFail
    \/ CheckPendingMintsCatch
    \/ NoPendingMints
    \/ ProcessPendingMint
    \/ ExecReturn(IdLine, "ok")

SpecLine == Init /\ [][LineNext]_vars

-----------------------------------------------------------------------------
(* Properties of the Ledger (Spec) *)

\* the row of txid, when the table holds exactly one
RowOf(txid) == CHOOSE r \in db : r.txid = txid

\* C1: every record whose status is pending has an amount of at least 1641
\* sats and a present sender address
C1_PendingHasAmountAndSender ==
    \A r \in db : r.minting_status = "pending" =>
        r.amount >= 1641 /\ r.sender_address # Null

\* C2: for any single txid at most one confirm-mint request gets the success
\* response, whatever the interleaving of the handlers
C2_AtMostOneSuccess ==
    \A t \in TxIds :
        Cardinality({ r \in Requests : req[r].pc = "done" /\ req[r].code = 200
                                       /\ req[r].txid = t }) <= 1

\* C3: the only status change of a record is pending -> completed, and a record
\* that is not_required is left unchanged by every step, confirm-mint included
C3_OnlyPendingToCompleted ==
    [][\A r \in db : \E r2 \in db' :
          /\ r2.txid = r.txid
          /\ r2.minting_status = r.minting_status
             \/ (r.minting_status = "pending" /\ r2.minting_status = "completed")
          /\ r.minting_status = "not_required" => r2 = r]_vars

\* C4: every record with status completed has a present inscription_id and a
\* present completion timestamp, whatever body confirm-mint received
C4_CompletedHasInscription ==
    \A r \in db : r.minting_status = "completed" =>
        r.inscription_id # Null /\ r.inscription_timestamp # None

\* processTransaction, run by poll p, moved on from a transaction whose txid
\* had a row
Reingested(p) ==
    /\ poll[p].pc \in {"loop", "insert"}
    /\ poll'[p] # poll[p]
    /\ SelectTx(db, Head(poll[p].txs).txid) # {}

\* C6: the table never holds two rows with the same txid, and processing a
\* transaction whose txid has a row leaves that row as it was, completed or not
C6_UniqueAndReingestNoOp ==
    /\ [](\A r1, r2 \in db : r1.txid = r2.txid => r1 = r2)
    /\ [][\A p \in Pollers : Reingested(p) =>
             SelectTx(db', Head(poll[p].txs).txid) = SelectTx(db, Head(poll[p].txs).txid)]_vars

\* a completed row was found in the way of its transaction and is still there
C6_Witness ==
    \E x \in seenAgain :
        /\ x.minting_status = "completed"
        /\ \E r \in db : r.txid = x.txid /\ r.minting_status = "completed" /\ r.inscription_id # Null

-----------------------------------------------------------------------------
(* Replaying one listing (SpecReplay) *)

\* monitorAddress run alone on a listing: processTransaction for each
\* transaction in turn, every await resolved before the next statement
RECURSIVE OneTick(_, _, _)
OneTick(rows, txs, t) ==
    IF txs = <<>> THEN rows
    ELSE LET tx == Head(txs)
         IN OneTick(IF SelectTx(rows, tx.txid) # {} \/ ReceivedAmount(tx.vout) = 0
                    THEN rows
                    ELSE InsertTx(rows, TxInfo(tx, t)),
                    Tail(txs), t)

\* what the claim compares of a record
LedgerView(rows) ==
    { [txid |-> r.txid, amount |-> r.amount, sender_address |-> r.sender_address,
       block_height |-> r.block_height, minting_status |-> r.minting_status] : r \in rows }

\* C7: once one or more ticks that all received the same listing have
\* finished, the table holds what a single such tick leaves: the same txids,
\* each once, with the same amount, sender, block height and status
C7_ReplayIdempotent ==
    (ticks >= 1 /\ \A p \in Pollers : ~Running(p)) =>
        /\ LedgerView(db) = LedgerView(OneTick({}, replay, 0))
        /\ Cardinality(db) = Cardinality(OneTick({}, replay, 0))

\* two ticks replayed a listing of two transactions and both finished
C7_Witness ==
    /\ ticks >= 2
    /\ \A p \in Pollers : ~Running(p)
    /\ Cardinality(db) >= 1
    /\ Len(replay) = 2
    /\ seenAgain # {}

-----------------------------------------------------------------------------
(* The Worker with a command and a confirm POST that always succeed (SpecHappy) *)

\* C8: the inscription command is never started twice for a txid, it is not
\* started for a txid no pending list held, and when checkPendingMints has
\* returned it has been started exactly once for every txid a list held
C8_InvokedExactlyOnce ==
    \A t \in TxIds :
        /\ invocations[t] <= 1
        /\ t \notin listed => invocations[t] = 0
        /\ (w.pc = "sleep" /\ t \in listed) => invocations[t] = 1

\* two txids were listed, both were minted once, and a later tick has run
C8_Witness ==
    /\ Cardinality(listed) = 2
    /\ \A t \in listed : invocations[t] = 1 /\ t \in confirmed
    /\ w.pc = "none"

-----------------------------------------------------------------------------
(* The Monitor and the Worker together (SpecSystem) *)

\* the records GET /api/pending-mints has to return, as the response shows them
PendingWithSender ==
    { [txid |-> r.txid, amount |-> r.amount, timestamp |-> r.timestamp,
       sender_address |-> r.sender_address] :
      r \in { x \in db : x.minting_status = "pending" /\ x.sender_address # Null } }

\* C5: every response of GET /api/pending-mints holds exactly the records that
\* are pending and have a sender address, each once
C5_PendingMintsExact ==
    [][(w.pc = "fetch" /\ w'.pc \in {"loop", "none"}) =>
          /\ { w'.list[i] : i \in 1..Len(w'.list) } = PendingWithSender
          /\ Len(w'.list) = Cardinality(PendingWithSender)]_vars

\* a response of one record was received while the table also held a pending
\* record without sender address
C5_Witness ==
    /\ w.pc = "loop"
    /\ Len(w.list) = 1
    /\ \E r \in db : /\ r.minting_status = "pending"
                     /\ r.sender_address = Null
                     /\ r.txid # w.list[1].txid

\* C9: no two inscription subprocesses for one txid run at the same time, and a
\* subprocess is never started for a txid that is in activeOperations
C9_NoConcurrentMint ==
    /\ [](\A t \in TxIds : procs[t] <= 1)
    /\ [][\A t \in TxIds : invocations'[t] > invocations[t] => t \notin activeOperations]_vars

\* a second subprocess for a txid runs, after the first one failed, while the
\* Monitor still has the txid pending
C9_Witness ==
    \E t \in TxIds :
        /\ procs[t] = 1
        /\ invocations[t] = 2
        /\ t \in activeOperations
        /\ \E r \in db : r.txid = t /\ r.minting_status = "pending"

\* C10: when the command succeeded with an id and the Worker's confirm POST
\* succeeds, the UPDATE makes the record completed with that id; from then on
\* the record stays completed, no pending list holds the txid and the command
\* is not started for it again
C10_ConfirmedIsCompleted ==
    /\ [][(req[0].pc = "update" /\ req'[0].pc = "done") =>
             /\ req'[0].code = 200
             /\ w.id = MintId(w.tx.txid, invocations[w.tx.txid])
             /\ \E r \in db' : /\ r.txid = w.tx.txid
                               /\ r.minting_status = "completed"
                               /\ r.inscription_id = w.id]_vars
    /\ [](\A t \in confirmed : \E r \in db : r.txid = t /\ r.minting_status = "completed")
    /\ [][(w.pc = "fetch" /\ w'.pc \in {"loop", "none"}) =>
             \A i \in 1..Len(w'.list) : w'.list[i].txid \notin confirmed]_vars
    /\ [][\A t \in confirmed : invocations'[t] = invocations[t]]_vars

\* a txid was confirmed with the id of its only subprocess run, and a later
\* tick received an empty pending list
C10_Witness ==
    /\ w.pc = "none"
    /\ \E t \in confirmed :
          /\ invocations[t] = 1
          /\ RowOf(t).minting_status = "completed"
          /\ RowOf(t).inscription_id = MintId(t, 1)

-----------------------------------------------------------------------------
(* Error answers of POST /api/confirm-mint (Spec) *)

\* C11: confirm-mint answers 400 to a body without txid, 404 when no record
\* has the txid and 400 when the record is completed, and in each of the three
\* cases the table is as it was
C11_ConfirmErrors ==
    [][\A r \in Requests :
          /\ (req[r].pc = "free" /\ req'[r].pc = "done") =>
                req'[r].code = 400 /\ db' = db
          /\ (req[r].pc = "select" /\ req'[r] # req[r]
              /\ SelectTx(db, req[r].txid) = {}) =>
                req'[r].pc = "done" /\ req'[r].code = 404 /\ db' = db
          /\ (req[r].pc = "select" /\ req'[r] # req[r]
              /\ \E x \in SelectTx(db, req[r].txid) : x.minting_status = "completed") =>
                req'[r].pc = "done" /\ req'[r].code = 400 /\ db' = db]_vars

\* a request was refused because its record was completed, and the record is
\* still as the earlier confirm left it
C11_Witness ==
    \E r1, r2 \in Requests :
        /\ req[r1].pc = "done" /\ req[r1].code = 400
        /\ req[r1].error = "Transaction already minted"
        /\ req[r2].pc = "done" /\ req[r2].code = 200
        /\ \E x \in db : /\ x.txid = req[r2].txid
                         /\ x.minting_status = "completed"
                         /\ x.inscription_id = InscriptionOf(r2)

-----------------------------------------------------------------------------
(* Retries of the Worker (SpecRetry) *)

\* mints.json has no inscription for txid: no run of the command for it has
\* produced an id so far
NeverMinted(txid) == \A i \in 1..Len(mints) : mints[i].txid # txid

\* C12: while every run of the command for a txid fails, each finished run
\* counts one attempt and each tick runs it at most once, so three ticks bring
\* attempts to 3; a txid with 3 attempts is skipped without a run, its record
\* stays pending and the status endpoint shows it with attempts 3, maxRetries 3
C12_RetriesExhausted ==
    /\ [](\A t \in TxIds :
            /\ invocations[t] <= wticks
            /\ NeverMinted(t) =>
                  /\ GetAttempts(mintingAttempts, t) = invocations[t] - procs[t]
                  /\ t \in listed => RowOf(t).minting_status = "pending"
            /\ GetAttempts(mintingAttempts, t) = 3 =>
                  [txid |-> t, attempts |-> 3, maxRetries |-> 3]
                      \in pendingRetries(mintingAttempts))
    /\ [][(w.pc = "loop" /\ GetAttempts(mintingAttempts, Head(w.list).txid) = 3) =>
             /\ invocations' = invocations
             /\ mintingAttempts' = mintingAttempts
             /\ w'.pc \in {"loop", "sleep"}]_vars

\* the fourth tick listed two txids and has passed over one whose three runs
\* all failed
C12_Witness ==
    /\ wticks = 4
    /\ w.pc = "loop"
    /\ Len(w.list) = 1
    /\ \E t \in listed :
          /\ t # w.list[1].txid
          /\ NeverMinted(t)
          /\ invocations[t] = 3
          /\ GetAttempts(mintingAttempts, t) = 3
          /\ RowOf(t).minting_status = "pending"

\* C13: when confirmMint returns true the record of the txid is completed and
\* mintingAttempts has no entry for the txid, also after failed attempts
C13_SuccessClearsAttempts ==
    /\ [][confirmed' # confirmed =>
             /\ w.tx.txid \notin DOMAIN mintingAttempts'
             /\ \E r \in db' : r.txid = w.tx.txid /\ r.minting_status = "completed"]_vars
    /\ [](\A t \in confirmed :
             /\ t \notin DOMAIN mintingAttempts
             /\ RowOf(t).minting_status = "completed")

\* two runs for a txid failed, the third produced the only inscription and
\* was confirmed
C13_Witness ==
    \E t \in confirmed :
        /\ invocations[t] = 3
        /\ Len(mints) = 1
        /\ mints[1].txid = t
        /\ t \notin DOMAIN mintingAttempts
        /\ RowOf(t).minting_status = "completed"
        /\ RowOf(t).inscription_id = MintId(t, 3)

\* C18: when the command produced an id and the confirm POST fails, the
\* handler leaves attempts[txid] as it was before the handler ran
C18_FailedConfirmKeepsAttempts ==
    [][(w.pc = "confirm" /\ w'.pc \in {"loop", "sleep"}) =>
          GetAttempts(mintingAttempts', w.tx.txid) = w.attempts]_vars

\* C19: when the confirm POST failed after a run that produced an id, the
\* record is still pending, and as long as fewer than maxRetries attempts are
\* counted a later tick that lists the txid runs the command for it again
C19_SecondInscription ==
    /\ [][(w.pc = "confirm" /\ w'.pc \in {"loop", "sleep"}) =>
             \E r \in db' : r.txid = w.tx.txid /\ r.minting_status = "pending"]_vars
    /\ [](\A t \in TxIds :
             (~NeverMinted(t) /\ t \notin confirmed /\ w.tx.txid # t) =>
                 RowOf(t).minting_status = "pending")
    /\ [][(w.pc = "loop" /\ w' # w
           /\ ~NeverMinted(Head(w.list).txid)
           /\ GetAttempts(mintingAttempts, Head(w.list).txid) < maxRetries) =>
             invocations'[Head(w.list).txid] = invocations[Head(w.list).txid] + 1]_vars

\* a second run for a txid is in progress after the first one produced an id
\* whose confirm POST failed
C19_Witness ==
    \E t \in TxIds :
        /\ invocations[t] = 2
        /\ procs[t] = 1
        /\ Len(mints) = 1
        /\ mints[1].txid = t
        /\ mints[1].inscriptionId = MintId(t, 1)
        /\ RowOf(t).minting_status = "pending"

\* C20: the command is never run more than 3 times for one txid and
\* attempts[txid] never exceeds 3, whatever the runs and the POSTs give
C20_AtMostMaxRetries ==
    \A t \in TxIds :
        /\ invocations[t] <= 3
        /\ GetAttempts(mintingAttempts, t) <= 3

\* three runs for one txid each produced an id, each confirm POST failed, and
\* a fourth tick has come and gone
C20_Witness ==
    /\ wticks = 4
    /\ w.pc = "sleep"
    /\ \E t \in TxIds :
          /\ invocations[t] = 3
          /\ GetAttempts(mintingAttempts, t) = 3
          /\ Len(mints) = 3
          /\ \A i \in 1..3 : mints[i].txid = t

-----------------------------------------------------------------------------
(* A failing explorer (SpecOutage) *)

\* C14: a tick whose request to the explorer fails ends there, and neither its
\* start nor its end inserts, changes or deletes a row
C14_FailedTickNoChange ==
    [][\A p \in Pollers :
          /\ (poll[p].pc = "idle" /\ poll'[p].pc = "fetch") => db' = db
          /\ (poll[p].pc = "fetch" /\ poll'[p].pc = "idle") =>
                db' = db /\ poll'[p] = IdlePoll]_vars

\* of two finished ticks one failed: the table holds rows, and no transaction
\* of the listing was met a second time
C14_Witness ==
    /\ ticks = 2
    /\ \A p \in Pollers : ~Running(p)
    /\ db # {}
    /\ seenAgain = {}

-----------------------------------------------------------------------------
(* Amount and classification of a new record (Spec) *)

\* the sum of the values of the outputs, taken by position, that pay addr
RECURSIVE SumAt(_, _, _)
SumAt(vout, I, addr) ==
    IF I = {} THEN 0
    ELSE LET i == CHOOSE j \in I : TRUE
         IN (IF vout[i].scriptpubkey_address = addr THEN vout[i].value ELSE 0)
            + SumAt(vout, I \ {i}, addr)

\* the transaction of the explorer with this txid
UpstreamTx(txid) == CHOOSE tx \in UpstreamTxs : tx.txid = txid

\* the rows a step added for txids that had no row
NewRows == { r \in db' : SelectTx(db, r.txid) = {} }

\* C16: the amount of every record is the sum of the values of the outputs of
\* its transaction that pay the watched address, and the transaction with two
\* such outputs of 1000 sats and a known sender is stored with amount 2000 and
\* status pending
C16_AmountIsWatchedSum ==
    /\ [](\A r \in db :
             r.amount = SumAt(UpstreamTx(r.txid).vout,
                              1..Len(UpstreamTx(r.txid).vout), bitcoinAddress))
    /\ [][\A r \in NewRows :
             r.txid = "t1" => r.amount = 2000 /\ r.minting_status = "pending"
                              /\ r.sender_address = "S1"]_vars

\* the table holds the record of the transaction with two outputs to the
\* watched address, and a record of a transaction that also pays elsewhere
C16_Witness ==
    /\ \E r \in db : r.txid = "t1" /\ r.amount = 2000 /\ r.minting_status = "pending"
    /\ \E r \in db : r.txid \in {"t3", "t5"} /\ r.amount \in {1640, 1641}

\* C17: a new record with a sender is pending exactly when its amount is at
\* least 1641 sats, with or without a block height
C17_ThresholdWithSender ==
    [][\A r \in NewRows :
          r.sender_address # Null =>
             /\ r.minting_status \in {"pending", "not_required"}
             /\ r.minting_status = "pending" <=> r.amount >= 1641]_vars

\* 1641 sats with a sender is pending, 1640 sats with a sender is not_required
C17_Witness ==
    /\ \E r \in db : /\ r.amount = 1641 /\ r.sender_address # Null
                     /\ r.minting_status = "pending"
    /\ \E r \in db : /\ r.amount = 1640 /\ r.sender_address # Null
                     /\ r.minting_status = "not_required"

-----------------------------------------------------------------------------
(* Pending records are kept (Spec4) *)

\* C15: no step of the Monitor, the retention sweep included, removes a
\* pending record; a pending record is either left as it is or made completed
\* by the UPDATE of a confirm-mint request for its txid
C15_PendingNeverDeleted ==
    [][\A r \in db : r.minting_status = "pending" =>
          \E r2 \in db' :
             /\ r2.txid = r.txid
             /\ \/ r2 = r
                \/ /\ r2.minting_status = "completed"
                   /\ \E q \in Slots : /\ req[q].pc = "update"
                                       /\ req'[q].pc = "done"
                                       /\ req'[q].txid = r.txid]_vars

\* a sweep deleted a record older than the horizon and left a pending record
\* of the same age in the table
C15_Witness ==
    /\ swept # {}
    /\ \E r \in db : /\ r.minting_status = "pending"
                     /\ r.timestamp < now - RetentionPeriods

-----------------------------------------------------------------------------
(* What counts as a failed run (SpecStderr, SpecLine) *)

\* C21: a run whose stderr holds 'error' is a failure although its stdout
\* holds an id: nothing is saved to mints.json, no confirm POST is sent, and
\* every finished run has counted one attempt
C21_StderrErrorIsFailure ==
    /\ mints = <<>>
    /\ req[0].pc = "free"
    /\ w.pc \notin {"confirm", "wait"}
    /\ \A t \in TxIds : GetAttempts(mintingAttempts, t) = invocations[t] - procs[t]

\* C22: a run that prints the id in either format, here as the line
\* `inscription_id: <id>`, yields the id: every finished run has saved an
\* inscription and none has counted as a failed attempt
C22_LineFormatParsed ==
    \A t \in TxIds :
        invocations[t] - procs[t] > 0 =>
            /\ ~NeverMinted(t)
            /\ GetAttempts(mintingAttempts, t) = 0

-----------------------------------------------------------------------------
(* Overlapping ticks and the sender (Spec) *)

\* C24: at most one execution of monitorAddress is in progress at any time
C24_TicksNeverOverlap ==
    Cardinality({ p \in Pollers : Running(p) }) <= 1

\* C27: the sender_address of every record is the prevout address of the first
\* input of its transaction, in input order, that has one, and is absent only
\* when no input has one
C27_SenderIsFirstPrevout ==
    \A r \in db :
        LET vin == UpstreamTx(r.txid).vin
            withAddress == { i \in 1..Len(vin) : vin[i].prevout # None }
        IN IF withAddress = {}
           THEN r.sender_address = Null
           ELSE LET first == CHOOSE i \in withAddress : \A j \in withAddress : i <= j
                IN r.sender_address = vin[first].prevout[1].scriptpubkey_address

-----------------------------------------------------------------------------
(* The Worker with the pending list of server4.js (SpecWorker4) *)

\* the handler is between its first statement and its return
Handling == w.pc \in {"exec", "confirm", "wait"}

\* C23: a txid is in activeOperations only while processPendingMint is
\* executing for it; once the handler has returned, whether after a success,
\* a failed command, a failed confirm or a missing sender, the txid is out
C23_InFlightOnlyWhileHandling ==
    \A t \in activeOperations : Handling /\ w.tx.txid = t

\* a tick in which one handler returned after a success and another because
\* the sender was missing has ended, and nothing is in flight
C23_Witness ==
    /\ w.pc = "sleep"
    /\ activeOperations = {}
    /\ \E t \in confirmed, u \in TxIds :
          /\ u # t
          /\ GetAttempts(mintingAttempts, u) = maxRetries
          /\ invocations[u] = 0

\* C28: a handler given an item without sender_address leaves attempts[txid]
\* at maxRetries and starts no command, and no command is ever started for a
\* record without sender
C28_NoSenderNeverInvoked ==
    /\ [](\A r \in db : r.sender_address = Null => invocations[r.txid] = 0)
    /\ [][(w.pc = "loop" /\ w' # w /\ Head(w.list).sender_address = Null) =>
             /\ GetAttempts(mintingAttempts', Head(w.list).txid) = maxRetries
             /\ invocations' = invocations
             /\ procs' = procs
             /\ ~Handling']_vars

\* in a later tick the list again holds the item without sender, whose
\* attempts were set to maxRetries and for which no command was started
C28_Witness ==
    /\ wticks >= 2
    /\ w.pc = "loop"
    /\ Head(w.list).sender_address = Null
    /\ GetAttempts(mintingAttempts, Head(w.list).txid) = maxRetries
    /\ invocations[Head(w.list).txid] = 0

-----------------------------------------------------------------------------
(* Races and skipped transactions in replayed listings (SpecReplay) *)

\* C25: an INSERT that meets a row with its txid changes nothing in the
\* table, the row of the winner stays as it is, and the tick goes on with the
\* transactions that remain in its listing
C25_LosingInsertContinues ==
    [][\A p \in Pollers :
          (poll[p].pc = "insert" /\ poll'[p] # poll[p]
           /\ PrimaryKeyConflict(db, poll[p].txInfo[1])) =>
             /\ db' = db
             /\ poll'[p] = AfterCaught(Tail(poll[p].txs))
             /\ (Len(poll[p].txs) > 1 => poll'[p].pc = "loop")]_vars

\* the INSERT of a tick met the row of another tick, and the tick is at the
\* next transaction of its listing
C25_Witness ==
    \E p \in Pollers :
        /\ poll[p].caught
        /\ poll[p].pc = "loop"
        /\ Len(poll[p].txs) = 1
        /\ Len(replay) = 2
        /\ SelectTx(db, replay[1].txid) # {}
        /\ SelectTx(db, replay[2].txid) = {}

\* C26: the table never holds a record whose amount is 0
C26_NoZeroAmount ==
    \A r \in db : r.amount # 0

\* a tick went through a listing with the transaction that pays nothing to
\* the watched address and one that does: only the second is stored
C26_Witness ==
    /\ ticks >= 1
    /\ \A p \in Pollers : ~Running(p)
    /\ \E i \in 1..Len(replay) : replay[i].txid = "t4"
    /\ db # {}
    /\ \A r \in db : r.txid # "t4"

-----------------------------------------------------------------------------
(* A failed request for the pending list (SpecRetry) *)

\* C29: when the GET of checkPendingMints fails, the call returns without
\* starting a command and without changing the attempts, the in-flight set or
\* mints.json, and the scheduler loop goes to its sleep, from where the only
\* thing it does is to send the GET again
C29_FailedFetchNoChange ==
    /\ [][((w.pc = "fetch" /\ w'.pc \notin {"fetch", "loop", "none"})
           \/ (w.pc = "failed" /\ w' # w)) =>
             /\ w' \in {[Sleeping EXCEPT !.pc = "failed"], Sleeping}
             /\ UNCHANGED <<mintingAttempts, activeOperations, mints, procs, invocations>>]_vars
    /\ [][(w.pc = "sleep" /\ w' # w) => w' = [Sleeping EXCEPT !.pc = "fetch"]]_vars

\* the GET of a later tick failed when a txid had a failed attempt counted
\* and mints.json had a record
C29_Witness ==
    /\ w.pc = "failed"
    /\ wticks >= 2
    /\ mints # <<>>
    /\ \E t \in TxIds : GetAttempts(mintingAttempts, t) > 0

-----------------------------------------------------------------------------
(* mints.json (SpecJournal) *)

\* C30: mints.json only grows at its end: whenever its content changes, one
\* record was added and the records it held are all there, as they were and
\* in their order
C30_JournalAppendOnly ==
    [][mints' # mints =>
          /\ Len(mints') = Len(mints) + 1
          /\ SubSeq(mints', 1, Len(mints)) = mints]_vars

\* C31: whenever the Worker has sent the confirm POST for a txid and an
\* inscription id, mints.json holds a record with that txid and that id, and
\* every record the Worker completed has a record in mints.json
C31_JournalBeforeConfirm ==
    /\ w.pc = "wait" =>
          \E i \in 1..Len(mints) :
              mints[i].txid = w.tx.txid /\ mints[i].inscriptionId = w.id
    /\ \A r \in db :
          (r.minting_status = "completed" /\ r.txid \in confirmed) =>
              \E i \in 1..Len(mints) :
                  mints[i].txid = r.txid /\ mints[i].inscriptionId = r.inscription_id

-----------------------------------------------------------------------------
(* Completed records and the status endpoint (Spec) *)

\* C32: a step never changes the inscription_id or the completion timestamp
\* of a record that is completed
C32_CompletedIsFinal ==
    [][\A r \in db : r.minting_status = "completed" =>
          \E r2 \in db' :
              /\ r2.txid = r.txid
              /\ r2.inscription_id = r.inscription_id
              /\ r2.inscription_timestamp = r.inscription_timestamp]_vars

\* C34: the pendingMints count of GET /api/status is the number of items of
\* GET /api/pending-mints
C34_StatusCountsPendingList ==
    StatusPendingMints(db) = Cardinality(PendingMintsQuery(db))

-----------------------------------------------------------------------------
(* One command at a time (SpecWorker4) *)

\* C35: activeOperations never holds more than one txid and at most one
\* inscription command is running, over all txids
C35_OneCommandAtATime ==
    /\ Cardinality(activeOperations) <= 1
    /\ \A t, u \in TxIds : procs[t] + (IF u = t THEN 0 ELSE procs[u]) <= 1

\* the command runs for the second item of a list whose first item had its
\* command run and fail
C35_Witness ==
    /\ w.pc = "exec"
    /\ Cardinality(activeOperations) = 1
    /\ procs[w.tx.txid] = 1
    /\ \E u \in TxIds : u # w.tx.txid /\ invocations[u] > 0 /\ u \in listed /\ wticks = 1

-----------------------------------------------------------------------------
(* Progress of the Worker (SpecLive) *)

\* C33: every record that is pending with a sender is, at some later time,
\* completed or has attempts[txid] = maxRetries in the Worker
C33_PendingEventuallySettled ==
    \A t \in TxIds :
        (\E r \in db : r.txid = t /\ r.minting_status = "pending" /\ r.sender_address # Null)
        ~> \/ \E r \in db : r.txid = t /\ r.minting_status = "completed"
           \/ GetAttempts(mintingAttempts, t) = maxRetries

\* a record is still pending after the command ran for it maxRetries times,
\* and its attempts are at maxRetries
C33_Witness ==
    \E r \in db :
        /\ r.minting_status = "pending"
        /\ r.sender_address # Null
        /\ invocations[r.txid] = maxRetries
        /\ GetAttempts(mintingAttempts, r.txid) = maxRetries

====
